---- MODULE Spec2Model ----
(***************************************************************************)
(* Model of src/src/data_generation.py: generate_mmm_data and its two      *)
(* nested helpers apply_adstock and apply_saturation.                      *)
(*                                                                         *)
(* Numbers.  The program computes in float64.  A stored float is modelled  *)
(* as a fixed-point integer counting units of 1/Scale; every product and   *)
(* quotient is the exact result rounded to the nearest unit (RoundDiv).    *)
(* Sums of stored values are exact.  The quotient spend / (spend + K) is   *)
(* first formed exactly (Hill) and then stored (Fl).                       *)
(*                                                                         *)
(* Randomness.  numpy's global generator is modelled as a periodic stream  *)
(* of quantile indices: `stream` is the (arbitrary but fixed) output       *)
(* sequence of the generator, `rng` the position in it.  np.random.seed    *)
(* moves the position to a place that depends on the seed alone; every     *)
(* variate drawn consumes one stream element.                              *)
(***************************************************************************)
EXTENDS Integers, Sequences, FiniteSets, TLC

VARIABLES
    pc,             \* position in generate_mmm_data, or "idle"/"returned"/"raised"
    weeks,          \* the argument of the current invocation
    stream,         \* output sequence of the global generator (fixed per behaviour)
    rng,            \* state (position) of the global generator np.random
    log,            \* operations on np.random made by the current invocation
    date_range,     \* local of generate_mmm_data (line 14)
    tv_spend,       \* local (lines 18-19)
    search_spend,   \* local (lines 22-23)
    tv_adstocked,   \* value of apply_adstock(tv_spend, 0.6) (line 44)
    tv_saturated,   \* value of apply_saturation(..., 3000) (line 44)
    tv_effect,      \* local (line 44)
    search_adstocked, \* value of apply_adstock(search_spend, 0.1) (line 47)
    search_saturated, \* value of apply_saturation(..., 500) (line 47)
    search_effect,  \* local (line 47)
    seasonality,    \* local (line 50)
    noise,          \* the vector drawn at line 55
    sales,          \* local (lines 54-55)
    df,             \* the DataFrame built at lines 57-62
    prev,           \* one earlier invocation's (weeks, DataFrame), remembered by the caller
    sat             \* inputs and outputs of a stand-alone use of the Hill quotient

vars == <<pc, weeks, stream, rng, log, date_range, tv_spend, search_spend,
          tv_adstocked, tv_saturated, tv_effect, search_adstocked,
          search_saturated, search_effect, seasonality, noise, sales, df,
          prev, sat>>

locals == <<date_range, tv_spend, search_spend, tv_adstocked, tv_saturated,
            tv_effect, search_adstocked, search_saturated, search_effect,
            seasonality, noise, sales, df>>

-----------------------------------------------------------------------------
(* Bounds of the model *)

MaxWeeks == 17      \* largest `weeks` an invocation is called with
Period == 2         \* period of the modelled generator stream
MaxU == 2           \* stream elements (quantile indices) range over 0..MaxU
MaxX == 6           \* stand-alone saturation inputs range over 0..MaxX
MaxK == 3           \* stand-alone half-saturation constants range over 1..MaxK

WeeksInputs == {-1} \cup (0..MaxWeeks)

-----------------------------------------------------------------------------
(* Program constants *)

Seed == 42
GammaShape == 2
GammaScale == 1000
BoostLen == 10
BoostAmount == 5000
SearchLoc == 2000
SearchScale == 500
SearchFloor == 500
TvK == 3000
SearchK == 500
baseline_sales == 10000
TvUnits == 50000
SearchUnits == 20000
NoiseScale == 500
WeeksPerYear == 52
FirstSunday == 2    \* 2021-01-01 is a Friday: freq='W' starts on 2021-01-03
DaysPerWeek == 7

-----------------------------------------------------------------------------
(* Float arithmetic at resolution 1/Scale *)

Scale == 100

RoundDiv(n, d) == (2 * n + d) \div (2 * d)

Fx(n) == n * Scale

Dec(n, d) == RoundDiv(n * Scale, d)

FMul(a, b) == RoundDiv(a * b, Scale)

Fl(q) == RoundDiv(q.num * Scale, q.den)

TvAlpha == Dec(6, 10)
SearchAlpha == Dec(1, 10)
TvWeight == Dec(5, 10)
SearchWeight == Dec(3, 10)
SeasonAmp == Dec(2, 10)

\* round(100 * sin(2*pi*k/52)) for k = 0..13 (a quarter period)
SinQuarter == <<0, 12, 24, 35, 46, 57, 66, 75, 82, 89, 94, 97, 99, 100>>

\* np.sin(2 * np.pi * t / 52) for an integer t >= 0
SinWeek(t) ==
    LET k == t % WeeksPerYear
        h == WeeksPerYear \div 2
        q == WeeksPerYear \div 4
    IN  IF k <= q THEN SinQuarter[k + 1]
        ELSE IF k <= h THEN SinQuarter[h - k + 1]
        ELSE IF k <= h + q THEN -SinQuarter[k - h + 1]
        ELSE -SinQuarter[WeeksPerYear - k + 1]

-----------------------------------------------------------------------------
(* The random source *)

Streams == [1..Period -> 0..MaxU]

\* np.random.seed(s): the state after seeding depends on s alone
SeedState(s) == s % Period

\* the stream element a draw at state r returns
Element(r) == stream[(r % Period) + 1]

\* the state after n further variates
Advance(r, n) == (r + n) % Period

\* quantile tables of the two distributions
StdGamma(shape, u) == shape - 1 + 2 * u

StdNormal(u) ==
    IF u = 0 THEN -40
    ELSE IF u % 2 = 1 THEN (u + 1) \div 2
    ELSE -(2 + (u \div 2))

\* np.random.gamma(shape, scale, size=n) drawn from state r
gamma(shape, scale, n, r) ==
    [i \in 1..n |-> Fx(scale * StdGamma(shape, Element(r + i - 1)))]

\* np.random.normal(loc, scale, size=n) drawn from state r
normal(loc, scale, n, r) ==
    [i \in 1..n |-> Fx(loc + scale * StdNormal(Element(r + i - 1)))]

Repeat(x, n) == [i \in 1..n |-> x]

-----------------------------------------------------------------------------
(* The nested helpers of generate_mmm_data *)

\* np.zeros_like(spend)
zeros_like(spend) == [i \in DOMAIN spend |-> 0]

\* variant: the carry-over is taken from the raw spend of the week before
AdstockStepRaw(adstocked_spend, spend, alpha, t) ==
    [adstocked_spend EXCEPT ![t + 1] = spend[t + 1] + FMul(alpha, spend[t])]

\* the loop body at lines 30-31 for the 0-based index t (sequences are 1-based)
AdstockStep(adstocked_spend, spend, alpha, t) ==
    [adstocked_spend EXCEPT ![t + 1] = spend[t + 1] + FMul(alpha, adstocked_spend[t])]

RECURSIVE AdstockLoop(_, _, _, _)
\* for t in range(from, len(spend)): ...
AdstockLoop(adstocked_spend, spend, alpha, from) ==
    IF from >= Len(spend) THEN adstocked_spend
    ELSE AdstockLoop(AdstockStep(adstocked_spend, spend, alpha, from), spend, alpha, from + 1)

apply_adstock(spend, alpha) == AdstockLoop(zeros_like(spend), spend, alpha, 1)

\* variant: the quotient spend / K, without the spend in the denominator
HillLinear(x, K) == [num |-> x, den |-> K]

\* the exact quotient spend / (spend + K) of one element
Hill(x, K) == [num |-> x, den |-> x + K]

apply_saturation(spend, K) == [i \in DOMAIN spend |-> Fl(Hill(spend[i], Fx(K)))]

\* the 0-based indices selected by a[lo:hi] on a sequence of length n (0 <= lo <= hi)
SliceIndices(lo, hi, n) == {i \in 0..(n - 1) : lo <= i /\ i < hi}

\* variant: the window is one week short
BoostedShort(tv, w) ==
    [i \in DOMAIN tv |->
        IF (i - 1) \in SliceIndices(w \div 3, w \div 3 + BoostLen - 1, Len(tv))
        THEN tv[i] + Fx(BoostAmount) ELSE tv[i]]

\* tv_spend[weeks//3 : weeks//3+10] += 5000
Boosted(tv, w) ==
    [i \in DOMAIN tv |->
        IF (i - 1) \in SliceIndices(w \div 3, w \div 3 + BoostLen, Len(tv))
        THEN tv[i] + Fx(BoostAmount) ELSE tv[i]]

\* variant: the floor is 0 ("ensure spend isn't negative") instead of lo
clipAtZero(a, lo) == [i \in DOMAIN a |-> IF a[i] < 0 THEN 0 ELSE a[i]]

\* np.clip(a, lo, None)
clip(a, lo) == [i \in DOMAIN a |-> IF a[i] < lo THEN lo ELSE a[i]]

\* variant: one period too many
DateRangeInclusive(n) == [i \in 1..(n + 1) |-> FirstSunday + DaysPerWeek * (i - 1)]

\* pd.date_range(start='2021-01-01', periods=n, freq='W'), as day numbers from the start
DateRange(n) == [i \in 1..n |-> FirstSunday + DaysPerWeek * (i - 1)]

\* 1 + 0.2 * np.sin(2 * np.pi * np.arange(weeks) / 52)
Seasonality(n) == [i \in 1..n |-> Fx(1) + FMul(SeasonAmp, SinWeek(i - 1))]

\* (baseline_sales + (tv_effect * 50000) + (search_effect * 20000)) * seasonality
Composed(tv_eff, search_eff, season) ==
    [i \in DOMAIN season |->
        FMul(Fx(baseline_sales) + FMul(tv_eff[i], Fx(TvUnits))
                                + FMul(search_eff[i], Fx(SearchUnits)),
             season[i])]

\* sales += noise
AddVec(a, b) == [i \in DOMAIN a |-> a[i] + b[i]]

\* weight * vector
ScaleVec(wt, a) == [i \in DOMAIN a |-> FMul(wt, a[i])]

DataFrame(week, tv, search, sl) ==
    [week |-> week, tv_spend |-> tv, search_spend |-> search, sales |-> sl]

-----------------------------------------------------------------------------
(* generate_mmm_data, one action per statement *)

\* variant: the Search draws are made before the TV draws
StatementsSearchFirst ==
    <<"seed", "timeline", "search", "clip", "tv", "boost", "tv_effect",
      "search_effect", "seasonality", "sales", "noise", "frame", "return">>

\* the statements of the function body in program order
Statements == <<"seed", "timeline", "tv", "boost", "search", "clip", "tv_effect",
                "search_effect", "seasonality", "sales", "noise", "frame", "return">>

Position(label) == CHOOSE i \in DOMAIN Statements : Statements[i] = label

After(label) == Statements[Position(label) + 1]

NoFrame == DataFrame(<<>>, <<>>, <<>>, <<>>)

NoSat == [x1 |-> 0, x2 |-> 0, K |-> 1, applied |-> FALSE,
          y1 |-> Hill(0, 1), y2 |-> Hill(0, 1)]

ClearLocals ==
    /\ date_range' = <<>>
    /\ tv_spend' = <<>>
    /\ search_spend' = <<>>
    /\ tv_adstocked' = <<>>
    /\ tv_saturated' = <<>>
    /\ tv_effect' = <<>>
    /\ search_adstocked' = <<>>
    /\ search_saturated' = <<>>
    /\ search_effect' = <<>>
    /\ seasonality' = <<>>
    /\ noise' = <<>>
    /\ sales' = <<>>
    /\ df' = NoFrame

Init ==
    /\ pc = "idle"
    /\ weeks = 0
    /\ stream \in Streams
    /\ rng = 0
    /\ log = <<>>
    /\ date_range = <<>>
    /\ tv_spend = <<>>
    /\ search_spend = <<>>
    /\ tv_adstocked = <<>>
    /\ tv_saturated = <<>>
    /\ tv_effect = <<>>
    /\ search_adstocked = <<>>
    /\ search_saturated = <<>>
    /\ search_effect = <<>>
    /\ seasonality = <<>>
    /\ noise = <<>>
    /\ sales = <<>>
    /\ df = NoFrame
    /\ prev = {}
    /\ sat = NoSat

Between == pc \in {"idle", "returned", "raised"}

\* other code of the process draws from the global generator between invocations
ExternalDraw ==
    /\ Between
    /\ rng' = Advance(rng, 1)
    /\ UNCHANGED <<pc, weeks, stream, log, locals, prev, sat>>

\* generate_mmm_data(weeks) is entered
Call ==
    /\ Between
    /\ \E w \in WeeksInputs : weeks' = w
    /\ pc' = Statements[1]
    /\ log' = <<>>
    /\ ClearLocals
    /\ UNCHANGED <<stream, rng, prev, sat>>

\* variant: the generator is not re-seeded
SeedRngSkipped ==
    /\ pc = "seed"
    /\ rng' = rng
    /\ log' = Append(log, "seed")
    /\ pc' = Statements[2]
    /\ UNCHANGED <<weeks, stream, locals, prev, sat>>

\* line 11: np.random.seed(42)
SeedRng ==
    /\ pc = "seed"
    /\ rng' = SeedState(Seed)
    /\ log' = Append(log, "seed")
    /\ pc' = After("seed")
    /\ UNCHANGED <<weeks, stream, locals, prev, sat>>

\* line 14: pd.date_range(...).  For a negative `periods` the pandas release decides
\* between a ValueError and an empty index.
Timeline ==
    /\ pc = "timeline"
    /\ \/ /\ weeks >= 0
          /\ date_range' = DateRange(weeks)
          /\ pc' = After("timeline")
       \/ /\ weeks < 0
          /\ date_range' = <<>>
          /\ pc' = After("timeline")
       \/ /\ weeks < 0
          /\ date_range' = date_range
          /\ pc' = "raised"
    /\ UNCHANGED <<weeks, stream, rng, log, tv_spend, search_spend, tv_adstocked,
                   tv_saturated, tv_effect, search_adstocked, search_saturated,
                   search_effect, seasonality, noise, sales, df, prev, sat>>

\* line 18: np.random.gamma(shape=2, scale=1000, size=weeks); a negative size raises
\* ValueError before anything is drawn
DrawTV ==
    /\ pc = "tv"
    /\ \/ /\ weeks >= 0
          /\ tv_spend' = gamma(GammaShape, GammaScale, weeks, rng)
          /\ rng' = Advance(rng, weeks)
          /\ log' = log \o Repeat("tv", weeks)
          /\ pc' = After("tv")
       \/ /\ weeks < 0
          /\ pc' = "raised"
          /\ UNCHANGED <<tv_spend, rng, log>>
    /\ UNCHANGED <<weeks, stream, date_range, search_spend, tv_adstocked,
                   tv_saturated, tv_effect, search_adstocked, search_saturated,
                   search_effect, seasonality, noise, sales, df, prev, sat>>

\* line 19
Boost ==
    /\ pc = "boost"
    /\ tv_spend' = Boosted(tv_spend, weeks)
    /\ pc' = After("boost")
    /\ UNCHANGED <<weeks, stream, rng, log, date_range, search_spend, tv_adstocked,
                   tv_saturated, tv_effect, search_adstocked, search_saturated,
                   search_effect, seasonality, noise, sales, df, prev, sat>>

\* line 22
DrawSearch ==
    /\ pc = "search"
    /\ search_spend' = normal(SearchLoc, SearchScale, weeks, rng)
    /\ rng' = Advance(rng, weeks)
    /\ log' = log \o Repeat("search", weeks)
    /\ pc' = After("search")
    /\ UNCHANGED <<weeks, stream, date_range, tv_spend, tv_adstocked,
                   tv_saturated, tv_effect, search_adstocked, search_saturated,
                   search_effect, seasonality, noise, sales, df, prev, sat>>

\* line 23
Clip ==
    /\ pc = "clip"
    /\ search_spend' = clip(search_spend, Fx(SearchFloor))
    /\ pc' = After("clip")
    /\ UNCHANGED <<weeks, stream, rng, log, date_range, tv_spend, tv_adstocked,
                   tv_saturated, tv_effect, search_adstocked, search_saturated,
                   search_effect, seasonality, noise, sales, df, prev, sat>>

\* line 44
TvEffect ==
    /\ pc = "tv_effect"
    /\ tv_adstocked' = apply_adstock(tv_spend, TvAlpha)
    /\ tv_saturated' = apply_saturation(tv_adstocked', TvK)
    /\ tv_effect' = ScaleVec(TvWeight, tv_saturated')
    /\ pc' = After("tv_effect")
    /\ UNCHANGED <<weeks, stream, rng, log, date_range, tv_spend, search_spend,
                   search_adstocked, search_saturated, search_effect,
                   seasonality, noise, sales, df, prev, sat>>

\* line 47
SearchEffect ==
    /\ pc = "search_effect"
    /\ search_adstocked' = apply_adstock(search_spend, SearchAlpha)
    /\ search_saturated' = apply_saturation(search_adstocked', SearchK)
    /\ search_effect' = ScaleVec(SearchWeight, search_saturated')
    /\ pc' = After("search_effect")
    /\ UNCHANGED <<weeks, stream, rng, log, date_range, tv_spend, search_spend,
                   tv_adstocked, tv_saturated, tv_effect,
                   seasonality, noise, sales, df, prev, sat>>

\* line 50
SeasonalityStep ==
    /\ pc = "seasonality"
    /\ seasonality' = Seasonality(weeks)
    /\ pc' = After("seasonality")
    /\ UNCHANGED <<weeks, stream, rng, log, date_range, tv_spend, search_spend,
                   tv_adstocked, tv_saturated, tv_effect, search_adstocked,
                   search_saturated, search_effect, noise, sales, df, prev, sat>>

\* line 54
Sales ==
    /\ pc = "sales"
    /\ sales' = Composed(tv_effect, search_effect, seasonality)
    /\ pc' = After("sales")
    /\ UNCHANGED <<weeks, stream, rng, log, date_range, tv_spend, search_spend,
                   tv_adstocked, tv_saturated, tv_effect, search_adstocked,
                   search_saturated, search_effect, seasonality, noise, df, prev, sat>>

\* line 55
AddNoise ==
    /\ pc = "noise"
    /\ noise' = normal(0, NoiseScale, weeks, rng)
    /\ sales' = AddVec(sales, noise')
    /\ rng' = Advance(rng, weeks)
    /\ log' = log \o Repeat("noise", weeks)
    /\ pc' = After("noise")
    /\ UNCHANGED <<weeks, stream, date_range, tv_spend, search_spend,
                   tv_adstocked, tv_saturated, tv_effect, search_adstocked,
                   search_saturated, search_effect, seasonality, df, prev, sat>>

\* lines 57-62
Frame ==
    /\ pc = "frame"
    /\ df' = DataFrame(date_range, tv_spend, search_spend, sales)
    /\ pc' = After("frame")
    /\ UNCHANGED <<weeks, stream, rng, log, date_range, tv_spend, search_spend,
                   tv_adstocked, tv_saturated, tv_effect, search_adstocked,
                   search_saturated, search_effect, seasonality, noise, sales,
                   prev, sat>>

\* line 64: the caller receives df and may keep it for a later comparison
Return ==
    /\ pc = "return"
    /\ pc' = "returned"
    /\ \E keep \in BOOLEAN :
          prev' = IF keep THEN {[weeks |-> weeks, df |-> df]} ELSE prev
    /\ UNCHANGED <<weeks, stream, rng, log, locals, sat>>

Next ==
    \/ ExternalDraw
    \/ Call
    \/ SeedRng
    \/ Timeline
    \/ DrawTV
    \/ Boost
    \/ DrawSearch
    \/ Clip
    \/ TvEffect
    \/ SearchEffect
    \/ SeasonalityStep
    \/ Sales
    \/ AddNoise
    \/ Frame
    \/ Return

Spec == Init /\ [][Next]_vars

-----------------------------------------------------------------------------
(* Stand-alone use of the Hill quotient spend / (spend + K) on arbitrary inputs *)

InitSat ==
    /\ pc = "idle"
    /\ weeks = 0
    /\ stream = [i \in 1..Period |-> 0]
    /\ rng = 0
    /\ log = <<>>
    /\ date_range = <<>>
    /\ tv_spend = <<>>
    /\ search_spend = <<>>
    /\ tv_adstocked = <<>>
    /\ tv_saturated = <<>>
    /\ tv_effect = <<>>
    /\ search_adstocked = <<>>
    /\ search_saturated = <<>>
    /\ search_effect = <<>>
    /\ seasonality = <<>>
    /\ noise = <<>>
    /\ sales = <<>>
    /\ df = NoFrame
    /\ prev = {}
    /\ \E a \in 0..MaxX, b \in 0..MaxX, k \in 1..MaxK :
          sat = [NoSat EXCEPT !.x1 = a, !.x2 = b, !.K = k]

ApplySat ==
    /\ ~sat.applied
    /\ sat' = [sat EXCEPT !.applied = TRUE,
                          !.y1 = Hill(sat.x1, sat.K),
                          !.y2 = Hill(sat.x2, sat.K)]
    /\ UNCHANGED <<pc, weeks, stream, rng, log, locals, prev>>

NextSat == ApplySat

SpecSat == InitSat /\ [][NextSat]_vars

-----------------------------------------------------------------------------
(* Vocabulary of the properties *)

InBody == pc \in {Statements[i] : i \in DOMAIN Statements}

\* the statement `label` of the current invocation has been executed
Past(label) == pc = "returned" \/ (InBody /\ Position(pc) > Position(label))

Ended == pc \in {"returned", "raised"}

Min(a, b) == IF a < b THEN a ELSE b

\* the variates the seeded generator hands to the invocation, in draw order
TvDraws == gamma(GammaShape, GammaScale, weeks, SeedState(Seed))
SearchDraws == normal(SearchLoc, SearchScale, weeks, Advance(SeedState(Seed), weeks))
NoiseDraws == normal(0, NoiseScale, weeks, Advance(SeedState(Seed), 2 * weeks))

\* the order of generator operations the specification prescribes
ExpectedLog(w) ==
    <<"seed">> \o Repeat("tv", w) \o Repeat("search", w) \o Repeat("noise", w)

IsPrefix(a, b) == Len(a) <= Len(b) /\ \A i \in 1..Len(a) : a[i] = b[i]

\* the adstock transform as section 4.2 words it: element 0 is spend[0]
AdstockAsSpecified(spend, alpha) ==
    IF Len(spend) = 0 THEN spend
    ELSE AdstockLoop([zeros_like(spend) EXCEPT ![1] = spend[1]], spend, alpha, 1)

\* the closed form of section 4.4 over given adstocked sequences
ClosedForm(tv_ad, search_ad, t) ==
    FMul(Fx(baseline_sales)
           + FMul(FMul(TvWeight, Fl(Hill(tv_ad[t + 1], Fx(TvK)))), Fx(TvUnits))
           + FMul(FMul(SearchWeight, Fl(Hill(search_ad[t + 1], Fx(SearchK)))), Fx(SearchUnits)),
         Fx(1) + FMul(SeasonAmp, SinWeek(t)))
      + NoiseDraws[t + 1]

-----------------------------------------------------------------------------
(* C1: the first element of apply_adstock's result equals the first element *)
(* of its input, for the TV and for the Search channel; with weeks = 1 the  *)
(* transform returns its input unchanged.                                   *)
C1_AdstockBaseCase ==
    /\ (Past("tv_effect") /\ weeks >= 1) => tv_adstocked[1] = tv_spend[1]
    /\ (Past("search_effect") /\ weeks >= 1) => search_adstocked[1] = search_spend[1]

(* C2: an invocation with weeks <= 0 ends in an error, raised before any   *)
(* variate is drawn, and returns no DataFrame.                              *)
C2_InvalidWeeksRejected ==
    (weeks <= 0 /\ Ended) =>
        /\ pc = "raised"
        /\ \A i \in 1..Len(log) : log[i] = "seed"

(* C3: apply_adstock returns a sequence of the input's length, and for     *)
(* every index t >= 1 its element t is spend[t] + alpha * (its own element *)
(* t-1), the already adstocked value.                                       *)
C3_AdstockRecurrence ==
    /\ Past("tv_effect") =>
          /\ Len(tv_adstocked) = Len(tv_spend)
          /\ \A t \in 1..(Len(tv_spend) - 1) :
                tv_adstocked[t + 1] = tv_spend[t + 1] + FMul(TvAlpha, tv_adstocked[t])
    /\ Past("search_effect") =>
          /\ Len(search_adstocked) = Len(search_spend)
          /\ \A t \in 1..(Len(search_spend) - 1) :
                search_adstocked[t + 1] =
                    search_spend[t + 1] + FMul(SearchAlpha, search_adstocked[t])

\* a run where the carry-over of the adstocked value differs from that of the raw spend
C3_Witness ==
    /\ Past("search_effect")
    /\ weeks >= 4
    /\ tv_adstocked[4] # tv_spend[4] + FMul(TvAlpha, tv_spend[3])
    /\ tv_adstocked[4] = tv_spend[4] + FMul(TvAlpha, tv_adstocked[3])
    /\ search_adstocked[4] # search_spend[4] + FMul(SearchAlpha, search_spend[3])

(* C4: for weeks >= 1 the TV spend at index i is its Gamma draw plus 5000  *)
(* when weeks//3 <= i < min(weeks//3 + 10, weeks) and the unmodified draw  *)
(* elsewhere; the statement never fails; for weeks = 156 the window is     *)
(* 52..61.                                                                  *)
C4_BoostWindow ==
    /\ (Past("boost") /\ weeks >= 1) =>
          /\ Len(tv_spend) = weeks
          /\ \A i \in 0..(weeks - 1) :
                tv_spend[i + 1] =
                    IF weeks \div 3 <= i /\ i < Min(weeks \div 3 + 10, weeks)
                    THEN TvDraws[i + 1] + Fx(5000)
                    ELSE TvDraws[i + 1]
    /\ (pc = "boost" /\ weeks >= 0) => ENABLED Boost
    /\ SliceIndices(156 \div 3, 156 \div 3 + BoostLen, 156) = 52..61

\* a run whose window ends inside the sequence: index 14 boosted, index 15 not
C4_Witness ==
    /\ Past("boost")
    /\ weeks = 16
    /\ tv_spend[15] = TvDraws[15] + Fx(5000)
    /\ tv_spend[16] = TvDraws[16]
    /\ tv_spend[5] = TvDraws[5]

(* C5: in every returned DataFrame each search_spend value is >= 500 (a    *)
(* draw below 500 becomes exactly 500, a draw >= 500 is kept) and each     *)
(* tv_spend value is >= 0; the floored values are what the adstock is      *)
(* applied to and what the table holds.                                     *)
C5_SpendFloor ==
    /\ Past("clip") =>
          \A i \in 1..Len(search_spend) :
             /\ search_spend[i] >= Fx(500)
             /\ search_spend[i] =
                    (IF SearchDraws[i] < Fx(500) THEN Fx(500) ELSE SearchDraws[i])
    /\ Past("search_effect") =>
          search_adstocked = apply_adstock(clip(SearchDraws, Fx(500)), SearchAlpha)
    /\ pc = "returned" =>
          /\ df.search_spend = search_spend
          /\ \A i \in 1..Len(df.search_spend) : df.search_spend[i] >= Fx(500)
          /\ \A i \in 1..Len(df.tv_spend) : df.tv_spend[i] >= 0

\* a returned table holding a floored draw and an unchanged draw
C5_Witness ==
    /\ pc = "returned"
    /\ \E i, j \in 1..Len(df.search_spend) :
          /\ SearchDraws[i] < Fx(500)
          /\ df.search_spend[i] = Fx(500)
          /\ SearchDraws[j] > Fx(500)
          /\ df.search_spend[j] = SearchDraws[j]

(* C6: for x >= 0 and K > 0 the quotient x/(x+K) lies in [0,1), is 0 at    *)
(* x = 0, is 1/2 exactly when x = K, and is monotone in x.                  *)
C6_SaturationBounds ==
    sat.applied =>
        /\ sat.y1.den > 0
        /\ sat.y1.num * (sat.x1 + sat.K) = sat.x1 * sat.y1.den
        /\ 0 <= sat.y1.num
        /\ sat.y1.num < sat.y1.den
        /\ (sat.x1 = 0) => (sat.y1.num = 0)
        /\ (sat.x1 = sat.K) <=> (2 * sat.y1.num = sat.y1.den)
        /\ (sat.x1 <= sat.x2) => (sat.y1.num * sat.y2.den <= sat.y2.num * sat.y1.den)

\* the quotient taken at x = K, compared with a larger input
C6_Witness ==
    /\ sat.applied
    /\ sat.x1 = sat.K
    /\ sat.x2 > sat.x1
    /\ sat.y1.num * sat.y2.den < sat.y2.num * sat.y1.den

\* the stored saturation values of an invocation lie in [0, 1)
EffectsInUnitInterval ==
    /\ Past("tv_effect") =>
          \A i \in 1..Len(tv_saturated) : 0 <= tv_saturated[i] /\ tv_saturated[i] < Fx(1)
    /\ Past("search_effect") =>
          \A i \in 1..Len(search_saturated) :
             0 <= search_saturated[i] /\ search_saturated[i] < Fx(1)

(* C7: every returned sales[t] is (10000 + 0.5*50000*effect_tv[t] +        *)
(* 0.3*20000*effect_search[t]) * seasonality[t] + noise[t], the effects    *)
(* being the saturation of the adstock transform of the spend columns; the *)
(* value is not clamped.                                                    *)
C7_SalesComposition ==
    pc = "returned" =>
        \A t \in 0..(weeks - 1) :
            df.sales[t + 1] =
                ClosedForm(AdstockAsSpecified(df.tv_spend, TvAlpha),
                           AdstockAsSpecified(df.search_spend, SearchAlpha), t)

\* the same closed form over the sequences apply_adstock itself returns
SalesComposedFromCodeAdstock ==
    pc = "returned" =>
        /\ seasonality = [i \in 1..weeks |-> Fx(1) + FMul(SeasonAmp, SinWeek(i - 1))]
        /\ weeks >= 1 => seasonality[1] = Fx(1)
        /\ \A t \in 0..(weeks - 1) :
              df.sales[t + 1] =
                  ClosedForm(apply_adstock(df.tv_spend, TvAlpha),
                             apply_adstock(df.search_spend, SearchAlpha), t)

\* a negative sales value is returned as it is
NegativeSalesReturned ==
    pc = "returned" /\ \E t \in 1..Len(df.sales) : df.sales[t] < 0

(* C8: two invocations with the same weeks (the seed is fixed) return      *)
(* DataFrames equal in every cell, whatever was drawn from the generator   *)
(* before or between them.                                                  *)
C8_Determinism ==
    pc = "returned" => \A p \in prev : (p.weeks = weeks) => (p.df = df)

\* a second invocation returned, with an earlier one of the same weeks remembered,
\* on a stream whose draws differ from position to position
C8_Witness ==
    /\ pc = "returned"
    /\ weeks >= 2
    /\ \E p \in prev : p.weeks = weeks /\ p.df = df
    /\ df.tv_spend[1] # df.tv_spend[2]
    /\ rng # Advance(SeedState(Seed), 3 * weeks)

(* C9: within an invocation the generator is seeded once, before any draw, *)
(* and then yields all TV draws, then all Search draws, then all noise     *)
(* draws, with nothing in between.                                          *)
C9_DrawOrder ==
    /\ (InBody \/ Ended) => IsPrefix(log, ExpectedLog(weeks))
    /\ Past("seed") => (Len(log) >= 1 /\ log[1] = "seed")
    /\ pc = "returned" => log = ExpectedLog(weeks)

\* a returned invocation that drew several values of each group
C9_Witness ==
    /\ pc = "returned"
    /\ weeks >= 2
    /\ Len(log) = 1 + 3 * weeks

(* C10: for weeks >= 1 the returned DataFrame has the four columns week,   *)
(* tv_spend, search_spend, sales, each of exactly `weeks` entries, and the *)
(* adstocked, saturated, seasonality and noise sequences have `weeks`      *)
(* entries too.                                                             *)
C10_LengthInvariant ==
    (pc = "returned" /\ weeks >= 1) =>
        /\ DOMAIN df = {"week", "tv_spend", "search_spend", "sales"}
        /\ \A c \in DOMAIN df : DOMAIN df[c] = 1..weeks
        /\ \A s \in {tv_adstocked, tv_saturated, tv_effect, search_adstocked,
                     search_saturated, search_effect, seasonality, noise} :
              DOMAIN s = 1..weeks

\* a returned table of several rows
C10_Witness ==
    /\ pc = "returned"
    /\ weeks >= 3
    /\ Len(df.week) = weeks
    /\ df.week[2] = df.week[1] + DaysPerWeek

====
